---- MODULE Spec2Model ----
(***************************************************************************)
(* Model of molly's selection subsystem (src/selection.rs):                *)
(* AtomSelection, FrameSelection and Range.  A behaviour builds one        *)
(* selection value and then queries it; every query is the pure function   *)
(* of the source applied to the immutable value.                           *)
(*                                                                         *)
(* Index widths are scaled down: usize and u64 (equal on a 64-bit target)  *)
(* range over 0..MaxIdx, u32 over 0..MaxU32, with MaxU32 < MaxIdx as       *)
(* u32::MAX < usize::MAX.  Arithmetic that the source performs with        *)
(* plain `+` panics on overflow when debug assertions are on and wraps     *)
(* modulo MaxIdx + 1 otherwise.                                            *)
(***************************************************************************)
EXTENDS Integers, Sequences, FiniteSets

VARIABLES
    debug_assertions,   \* build profile: debug_assert! and overflow checks active
    pc,                 \* "config" before construction, then "atom" or "frame"
    asel,               \* the AtomSelection under query
    fsel,               \* the FrameSelection under query
    call,               \* the last query: [op, arg]
    included,           \* the Option<bool> an is_included query returned
    ret,                \* the Option<usize> (or usize, as Some) any other query returned
    panicked,           \* whether the last call panicked instead of returning
    ctor                \* the constructor that built the selection, and its list argument

vars == <<debug_assertions, pc, asel, fsel, call, included, ret, panicked, ctor>>

----------------------------------------------------------------------------
\* Bounds.

\* usize::MAX = u64::MAX, scaled down.
MaxIdx == 6
\* u32::MAX, scaled down (kept below MaxIdx).
MaxU32 == 3
\* Longest Mask built directly from a vector.
MaxMaskLen == 4
\* Longest index list / iterator handed to a constructor.
MaxListLen == 3
\* Largest step of a Range.
MaxStep == 3

Usize == 0..MaxIdx
U64 == 0..MaxIdx
U32 == 0..MaxU32
NonZeroU64 == 1..MaxStep

----------------------------------------------------------------------------
\* Option<T>: None is the empty set, Some(v) the singleton.

None == {}
Some(v) == {v}
IsSome(o) == o # {}
Unwrap(o) == CHOOSE v \in o : TRUE

Min(a, b) == IF a <= b THEN a ELSE b
SetMax(S) == CHOOSE m \in S : \A x \in S : x <= m
Items(f) == {f[i] : i \in DOMAIN f}

\* u64::saturating_sub
saturating_sub(a, b) == IF a >= b THEN a - b ELSE 0

\* Sequences over S of length at most n.
SeqUpTo(S, n) == UNION {[1..k -> S] : k \in 0..n}

----------------------------------------------------------------------------
\* Values.

AtomAll == [kind |-> "All", mask |-> <<>>, until |-> 0]
AtomMask(m) == [kind |-> "Mask", mask |-> m, until |-> 0]
AtomUntil(u) == [kind |-> "Until", mask |-> <<>>, until |-> u]

\* impl Default for Range
Range_default == [start |-> 0, end |-> None, step |-> 1]

FrameAll == [kind |-> "All", range |-> Range_default, list |-> {}]
FrameRange(r) == [kind |-> "Range", range |-> r, list |-> {}]
FrameList(S) == [kind |-> "FrameList", range |-> Range_default, list |-> S]

----------------------------------------------------------------------------
\* AtomSelection.

\* The loop `for &idx in indices { mask[idx as usize] = true; }` from entry i on.
\* Vec index idx is sequence position idx + 1.
RECURSIVE SetIndices(_, _, _)
SetIndices(mask, indices, i) ==
    IF i > Len(indices) THEN mask
    ELSE SetIndices([mask EXCEPT ![indices[i] + 1] = TRUE], indices, i + 1)

from_index_list_filled(indices) ==
    IF indices = <<>> THEN AtomMask(<<>>)
    ELSE LET max == SetMax(Items(indices)) + 1
             mask == [k \in 1..max |-> TRUE]
         IN AtomMask(SetIndices(mask, indices, 1))

from_index_list(indices) ==
    IF indices = <<>> THEN AtomMask(<<>>)
    ELSE LET max == SetMax(Items(indices)) + 1
             mask == [k \in 1..max |-> FALSE]
         IN AtomMask(SetIndices(mask, indices, 1))

AtomSelection_is_included_exclusive(sel, idx) ==
    CASE sel.kind = "All" -> Some(TRUE)
      [] sel.kind = "Mask" ->
            IF idx < Len(sel.mask) THEN Some(sel.mask[idx + 1]) ELSE None
      [] sel.kind = "Until" ->
            IF idx < sel.until THEN Some(TRUE) ELSE None

AtomSelection_is_included(sel, idx) ==
    CASE sel.kind = "All" -> Some(TRUE)
      [] sel.kind = "Mask" ->
            IF idx < Len(sel.mask) THEN Some(sel.mask[idx + 1]) ELSE None
      [] sel.kind = "Until" ->
            IF idx <= sel.until THEN Some(TRUE) ELSE None

\* mask.iter().rposition(|&entry| entry), as a Vec index.
rposition(mask) ==
    LET hits == {n \in 0..(Len(mask) - 1) : mask[n + 1]}
    IN IF hits = {} THEN None ELSE Some(SetMax(hits))

AtomSelection_last(sel) ==
    CASE sel.kind = "All" -> None
      [] sel.kind = "Mask" ->
            LET p == rposition(sel.mask)
            IN IF IsSome(p) THEN Some(Unwrap(p) + 1) ELSE Some(0)
      [] sel.kind = "Until" -> Some(sel.until)

natoms_selected(sel, frame_natoms) ==
    CASE sel.kind = "All" -> frame_natoms
      [] sel.kind = "Mask" ->
            Cardinality({n \in 1..Min(Len(sel.mask), frame_natoms) : sel.mask[n]})
      [] sel.kind = "Until" -> Min(sel.until, frame_natoms)

reading_limit(sel, frame_natoms) ==
    LET l == AtomSelection_last(sel)
    IN IF IsSome(l) THEN Min(Unwrap(l), frame_natoms) ELSE frame_natoms

----------------------------------------------------------------------------
\* Outcome of a call: it returns a value, or it panics.

Returned(v) == [panic |-> FALSE, val |-> v]
Panic == [panic |-> TRUE, val |-> None]

\* `a + b` on usize: panics on overflow when overflow checks are on (debug
\* profile), wraps otherwise.
usize_add(a, b, debug) ==
    IF a + b > MaxIdx
    THEN IF debug THEN Panic ELSE Returned((a + b) % (MaxIdx + 1))
    ELSE Returned(a + b)

\* `a - b` on u64: panics on underflow when overflow checks are on, wraps otherwise.
u64_sub(a, b, debug) ==
    IF a < b
    THEN IF debug THEN Panic ELSE Returned((a - b) % (MaxIdx + 1))
    ELSE Returned(a - b)

----------------------------------------------------------------------------
\* Range.

\* Range::new: defaults for omitted start and step, end stored verbatim;
\* debug_assert!(start <= end) when end is present.
Range_new(start, end, step, debug) ==
    LET sel == [start |-> IF IsSome(start) THEN Unwrap(start) ELSE Range_default.start,
                end |-> end,
                step |-> IF IsSome(step) THEN Unwrap(step) ELSE Range_default.step]
    IN IF IsSome(sel.end) /\ debug /\ ~(sel.start <= Unwrap(sel.end))
       THEN Panic
       ELSE Returned(sel)

Range_is_included_before_start_none(range, idx) ==
    IF IsSome(range.end) /\ Unwrap(range.end) <= idx THEN None
    ELSE IF idx < range.start THEN None
    ELSE Some(range.step = 1 \/ saturating_sub(idx, range.start) % range.step = 0)

Range_is_included_no_in_range(range, idx) ==
    IF IsSome(range.end) /\ Unwrap(range.end) <= idx THEN None
    ELSE Some(range.step = 1 \/ saturating_sub(idx, range.start) % range.step = 0)

Range_is_included(range, idx) ==
    IF IsSome(range.end) /\ Unwrap(range.end) <= idx THEN None
    ELSE LET in_range == range.start <= idx
             in_step == range.step = 1
                        \/ saturating_sub(idx, range.start) % range.step = 0
         IN Some(in_range /\ in_step)

Range_last(range, debug) ==
    IF IsSome(range.end)
    THEN LET end == Unwrap(range.end)
             length == saturating_sub(end, range.start)
             remainder == length % range.step
             r == u64_sub(end, remainder, debug)
         IN IF r.panic THEN Panic ELSE Returned(Some(r.val))
    ELSE Returned(None)

----------------------------------------------------------------------------
\* FrameSelection.

\* BTreeSet::from_iter: the set of the items, duplicates and order dropped.
framelist_from_iter(iter) == FrameList(Items(iter))

\* indices.last() of a BTreeSet: its greatest element.
BTreeSet_last(S) == IF S = {} THEN None ELSE Some(SetMax(S))

FrameList_is_included_inclusive_max(indices, idx) ==
    LET last == BTreeSet_last(indices)
    IN IF ~IsSome(last) THEN None
       ELSE IF Unwrap(last) <= idx THEN None
       ELSE Some(idx \in indices)

FrameList_is_included(indices, idx) ==
    LET last == BTreeSet_last(indices)
    IN IF ~IsSome(last) THEN None
       ELSE IF Unwrap(last) < idx THEN None
       ELSE Some(idx \in indices)

FrameSelection_is_included(sel, idx) ==
    CASE sel.kind = "All" -> Some(TRUE)
      [] sel.kind = "Range" -> Range_is_included(sel.range, idx)
      [] sel.kind = "FrameList" -> FrameList_is_included(sel.list, idx)

FrameSelection_until(sel, debug) ==
    CASE sel.kind = "All" -> Returned(None)
      [] sel.kind = "Range" ->
            LET last == Range_last(sel.range, debug)
            IN IF last.panic THEN Panic
               ELSE IF IsSome(last.val)
               THEN LET r == usize_add(Unwrap(last.val), 1, debug)
                    IN IF r.panic THEN Panic ELSE Returned(Some(r.val))
               ELSE Returned(None)
      [] sel.kind = "FrameList" ->
            LET max == BTreeSet_last(sel.list)
                r == usize_add(IF IsSome(max) THEN Unwrap(max) ELSE 0, 1, debug)
            IN IF r.panic THEN Panic ELSE Returned(Some(r.val))

----------------------------------------------------------------------------
\* State machine.

NoCall == [op |-> "none", arg |-> 0]

Init ==
    /\ debug_assertions \in BOOLEAN
    /\ pc = "config"
    /\ asel = AtomAll
    /\ fsel = FrameAll
    /\ call = NoCall
    /\ included = None
    /\ ret = None
    /\ panicked = FALSE
    /\ ctor = [name |-> "default", list |-> <<>>]

Built(kind, a, f, name, list) ==
    /\ pc = "config"
    /\ pc' = kind
    /\ asel' = a
    /\ fsel' = f
    /\ ctor' = [name |-> name, list |-> list]
    /\ UNCHANGED <<debug_assertions, call, included, ret, panicked>>

\* AtomSelection::All, AtomSelection::default()
NewAtomAll == Built("atom", AtomAll, fsel, "All", <<>>)

\* AtomSelection::Mask(vec)
NewAtomMask == \E m \in SeqUpTo(BOOLEAN, MaxMaskLen) : Built("atom", AtomMask(m), fsel, "Mask", <<>>)

\* AtomSelection::Until(n)
NewAtomUntil == \E u \in U32 : Built("atom", AtomUntil(u), fsel, "Until", <<>>)

\* AtomSelection::from_index_list(&indices)
FromIndexList ==
    \E indices \in SeqUpTo(U32, MaxListLen) :
        Built("atom", from_index_list(indices), fsel, "from_index_list", indices)

\* FrameSelection::All, FrameSelection::default()
NewFrameAll == Built("frame", asel, FrameAll, "All", <<>>)

\* FrameSelection::Range(Range::new(start, end, step)); a panic in Range::new
\* leaves no value to query.
NewFrameRange ==
    \E start \in {None} \cup {Some(n) : n \in U64},
       end \in {None} \cup {Some(n) : n \in U64},
       step \in {None} \cup {Some(n) : n \in NonZeroU64} :
        LET r == Range_new(start, end, step, debug_assertions)
        IN /\ pc = "config"
           /\ IF r.panic
              THEN /\ pc' = "panic"
                   /\ panicked' = TRUE
                   /\ call' = [op |-> "Range::new", arg |-> 0]
                   /\ UNCHANGED <<asel, fsel, ctor>>
              ELSE /\ pc' = "frame"
                   /\ fsel' = FrameRange(r.val)
                   /\ ctor' = [name |-> "Range::new", list |-> <<>>]
                   /\ UNCHANGED <<asel, call, panicked>>
           /\ UNCHANGED <<debug_assertions, included, ret>>

\* FrameSelection::FrameList(set)
NewFrameList == \E S \in SUBSET Usize : Built("frame", asel, FrameList(S), "FrameList", <<>>)

\* FrameSelection::framelist_from_iter(iter)
FramelistFromIter ==
    \E iter \in SeqUpTo(Usize, MaxListLen) :
        Built("frame", asel, framelist_from_iter(iter), "framelist_from_iter", iter)

Query(kind, op, arg, outcome) ==
    /\ pc = kind
    /\ call' = [op |-> op, arg |-> arg]
    /\ IF op \in {"is_included", "Range::is_included"}
       THEN included' = outcome.val /\ ret' = None
       ELSE ret' = outcome.val /\ included' = None
    /\ panicked' = outcome.panic
    /\ UNCHANGED <<debug_assertions, pc, asel, fsel, ctor>>

AtomIsIncluded ==
    \E idx \in Usize :
        Query("atom", "is_included", idx, Returned(AtomSelection_is_included(asel, idx)))

AtomLast == Query("atom", "last", 0, Returned(AtomSelection_last(asel)))

NatomsSelected ==
    \E frame_natoms \in Usize :
        Query("atom", "natoms_selected", frame_natoms,
              Returned(Some(natoms_selected(asel, frame_natoms))))

ReadingLimit ==
    \E frame_natoms \in Usize :
        Query("atom", "reading_limit", frame_natoms,
              Returned(Some(reading_limit(asel, frame_natoms))))

FrameIsIncluded ==
    \E idx \in Usize :
        Query("frame", "is_included", idx, Returned(FrameSelection_is_included(fsel, idx)))

FrameUntil == Query("frame", "until", 0, FrameSelection_until(fsel, debug_assertions))

\* Range::is_included on the range of a FrameSelection::Range
RangeIsIncluded ==
    \E idx \in U64 :
        /\ fsel.kind = "Range"
        /\ Query("frame", "Range::is_included", idx,
                 Returned(Range_is_included(fsel.range, idx)))

\* Range::last on the range of a FrameSelection::Range
RangeLast ==
    /\ fsel.kind = "Range"
    /\ Query("frame", "Range::last", 0, Range_last(fsel.range, debug_assertions))

Next ==
    \/ NewAtomAll
    \/ NewAtomMask
    \/ NewAtomUntil
    \/ FromIndexList
    \/ NewFrameAll
    \/ NewFrameRange
    \/ NewFrameList
    \/ FramelistFromIter
    \/ AtomIsIncluded
    \/ AtomLast
    \/ NatomsSelected
    \/ ReadingLimit
    \/ FrameIsIncluded
    \/ FrameUntil
    \/ RangeIsIncluded
    \/ RangeLast

Spec == Init /\ [][Next]_vars

----------------------------------------------------------------------------
\* Properties.

\* The membership table of a FrameSelection as the contract states it.
FrameIncludedRef(sel, idx) ==
    CASE sel.kind = "All" -> Some(TRUE)
      [] sel.kind = "Range" ->
            IF IsSome(sel.range.end) /\ idx >= Unwrap(sel.range.end) THEN None
            ELSE IF idx >= sel.range.start
                    /\ (idx - sel.range.start) % sel.range.step = 0
                 THEN Some(TRUE)
                 ELSE Some(FALSE)
      [] sel.kind = "FrameList" ->
            IF sel.list = {} \/ (\A x \in sel.list : idx > x) THEN None
            ELSE Some(idx \in sel.list)

\* C1: FrameSelection::is_included(idx) (and Range::is_included, which it
\* delegates to) returns the reference value: All gives Some(true); Range gives
\* None when end is present and idx >= end, otherwise Some(true) exactly when
\* idx >= start and (idx - start) mod step = 0 and Some(false) otherwise;
\* FrameList(S) gives None when S is empty or idx > max(S), else Some(idx in S).
C1_FrameIsIncluded ==
    (pc = "frame" /\ call.op \in {"is_included", "Range::is_included"})
        => (~panicked /\ included = FrameIncludedRef(fsel, call.arg))

\* A Range queried before its start answers Some(false).
C1_Witness ==
    /\ pc = "frame"
    /\ call.op = "is_included"
    /\ fsel.kind = "Range"
    /\ fsel.range.step > 1
    /\ call.arg < fsel.range.start
    /\ included = Some(FALSE)

\* The membership table of an AtomSelection as the contract states it.
AtomIncludedRef(sel, idx) ==
    CASE sel.kind = "All" -> Some(TRUE)
      [] sel.kind = "Mask" ->
            IF idx \in {k - 1 : k \in DOMAIN sel.mask} THEN Some(sel.mask[idx + 1])
            ELSE None
      [] sel.kind = "Until" ->
            IF idx > sel.until THEN None ELSE Some(TRUE)

C3_BeyondScopeFinal ==
    /\ (pc = "atom" /\ call.op = "is_included" /\ included = None)
          => \A j \in Usize : j > call.arg => AtomSelection_is_included(asel, j) = None
    /\ (pc = "frame" /\ call.op = "is_included" /\ included = None)
          => \A j \in Usize : j > call.arg => FrameSelection_is_included(fsel, j) = None
    /\ (pc = "frame" /\ call.op = "Range::is_included" /\ included = None)
          => \A j \in U64 : j > call.arg => Range_is_included(fsel.range, j) = None

\* A Range with start > end has answered None below its start, with later
\* indices still to come.
C3_Witness ==
    /\ pc = "frame"
    /\ call.op = "is_included"
    /\ fsel.kind = "Range"
    /\ IsSome(fsel.range.end)
    /\ fsel.range.start > Unwrap(fsel.range.end)
    /\ call.arg < fsel.range.start
    /\ included = None

\* C4: FrameSelection::until() is a safe early-stop bound: when it returns
\* Some(u), no index idx >= u has is_included(idx) = Some(true); and it returns
\* None exactly for All and for a Range with end = None.
C4_UntilSafeBound ==
    (pc = "frame" /\ call.op = "until" /\ ~panicked)
        => /\ IsSome(ret) =>
                \A idx \in Usize :
                    idx >= Unwrap(ret) => FrameSelection_is_included(fsel, idx) # Some(TRUE)
           /\ ret = None <=>
                (fsel.kind = "All" \/ (fsel.kind = "Range" /\ fsel.range.end = None))

\* The indices a Range with a bounded end selects.
RangeSelected(range) ==
    {i \in U64 : /\ range.start <= i
                 /\ i < Unwrap(range.end)
                 /\ (i - range.start) % range.step = 0}

\* C5: for a Range with end = Some(e) and start < e, Range::last() returns
\* the greatest index i with start <= i < e and (i - start) mod step = 0, so
\* that is_included(last()) = Some(true).
C5_RangeLastGreatest ==
    (/\ pc = "frame"
     /\ call.op = "Range::last"
     /\ IsSome(fsel.range.end)
     /\ fsel.range.start < Unwrap(fsel.range.end))
        => /\ ~panicked
           /\ ret = Some(SetMax(RangeSelected(fsel.range)))
           /\ Range_is_included(fsel.range, Unwrap(ret)) = Some(TRUE)

\* C6: FrameSelection::until() is a tight exclusive bound: when it returns
\* Some(u) for a Range or a FrameList, u itself is not included and u - 1 is.
C6_UntilTight ==
    (/\ pc = "frame"
     /\ call.op = "until"
     /\ ~panicked
     /\ IsSome(ret)
     /\ fsel.kind \in {"Range", "FrameList"})
        => /\ FrameSelection_is_included(fsel, Unwrap(ret)) # Some(TRUE)
           /\ Unwrap(ret) >= 1
           /\ FrameSelection_is_included(fsel, Unwrap(ret) - 1) = Some(TRUE)

\* The mask length the contract gives for an index list: max + 1, and 0 for
\* the empty list.
ListedLen(L) == IF L = {} THEN 0 ELSE SetMax(L) + 1

\* C7: from_index_list(indices), for any order and with duplicates, builds a
\* Mask of length max + 1 that is true exactly at the listed indices:
\* is_included is Some(true) at listed indices, Some(false) at unlisted ones up
\* to max, None beyond max (everywhere for the empty list); last() = max + 1,
\* natoms_selected(n) = the number of distinct listed indices below n, and
\* reading_limit(n) = min(max + 1, n).
C7_FromIndexList ==
    (pc = "atom" /\ ctor.name = "from_index_list")
        => LET L == Items(ctor.list)
           IN /\ asel.kind = "Mask"
              /\ Len(asel.mask) = ListedLen(L)
              /\ \A idx \in Usize :
                    AtomSelection_is_included(asel, idx) =
                        IF idx >= ListedLen(L) THEN None ELSE Some(idx \in L)
              /\ AtomSelection_last(asel) = Some(ListedLen(L))
              /\ \A n \in Usize :
                    /\ natoms_selected(asel, n) = Cardinality({i \in L : i < n})
                    /\ reading_limit(asel, n) = Min(ListedLen(L), n)
              /\ call.op = "is_included" =>
                    included = (IF call.arg >= ListedLen(L) THEN None
                                ELSE Some(call.arg \in L))
              /\ call.op = "last" => ret = Some(ListedLen(L))
              /\ call.op = "natoms_selected" =>
                    ret = Some(Cardinality({i \in L : i < call.arg}))
              /\ call.op = "reading_limit" => ret = Some(Min(ListedLen(L), call.arg))

\* An unsorted list with a duplicate was built and an unlisted index below its
\* maximum was answered Some(false).
C7_Witness ==
    /\ pc = "atom"
    /\ ctor.name = "from_index_list"
    /\ Len(ctor.list) = 3
    /\ ctor.list[1] > ctor.list[2]
    /\ ctor.list[3] = ctor.list[1]
    /\ call.op = "is_included"
    /\ included = Some(FALSE)

\* C8: natoms_selected(frame_natoms) is the number of indices idx < frame_natoms
\* with is_included(idx) = Some(true), and so at most frame_natoms.
C8_NatomsSelectedCount ==
    (pc = "atom" /\ call.op = "natoms_selected")
        => /\ ret = Some(Cardinality({idx \in Usize :
                        /\ idx < call.arg
                        /\ AtomSelection_is_included(asel, idx) = Some(TRUE)}))
           /\ Unwrap(ret) <= call.arg

\* C9: reading_limit(frame_natoms) is a sufficient scan depth: it is at most
\* frame_natoms, every idx < frame_natoms with is_included(idx) = Some(true) is
\* below it, and natoms_selected(frame_natoms) <= reading_limit(frame_natoms)
\* with strict inequality only for Mask.
C9_ReadingLimitSufficient ==
    (pc = "atom" /\ call.op = "reading_limit")
        => LET limit == Unwrap(ret)
               n == call.arg
           IN /\ limit <= n
              /\ \A idx \in Usize :
                    (idx < n /\ AtomSelection_is_included(asel, idx) = Some(TRUE))
                        => idx < limit
              /\ natoms_selected(asel, n) <= limit
              /\ natoms_selected(asel, n) < limit => asel.kind = "Mask"

StartExceedsEnd(range) == IsSome(range.end) /\ range.start > Unwrap(range.end)

\* C10: a Range with start > end is a usable value that matches no index:
\* is_included never returns Some(true), and last() returns end without
\* failing.
C10_StartExceedsEnd ==
    (pc = "frame" /\ fsel.kind = "Range" /\ StartExceedsEnd(fsel.range))
        => /\ \A idx \in U64 : Range_is_included(fsel.range, idx) \in {None, Some(FALSE)}
           /\ call.op \in {"is_included", "Range::is_included"} =>
                (~panicked /\ included # Some(TRUE))
           /\ call.op = "Range::last" => (~panicked /\ ret = fsel.range.end)

\* Range::last has returned on a Range with start > end.
C10_Witness ==
    /\ pc = "frame"
    /\ fsel.kind = "Range"
    /\ StartExceedsEnd(fsel.range)
    /\ fsel.range.step > 1
    /\ call.op = "Range::last"
    /\ ~panicked
    /\ IsSome(ret)

\* The left operand of the `+ 1` in FrameSelection::until: Range::last() for a
\* bounded Range, the greatest listed index (0 for the empty set) for a
\* FrameList; None when until() performs no addition.
UntilAddend(sel, debug) ==
    CASE sel.kind = "All" -> None
      [] sel.kind = "Range" -> Range_last(sel.range, debug).val
      [] sel.kind = "FrameList" ->
            LET max == BTreeSet_last(sel.list)
            IN Some(IF IsSome(max) THEN Unwrap(max) ELSE 0)

\* The remainder Range::last subtracts from end.
LastRemainder(range) ==
    saturating_sub(Unwrap(range.end), range.start) % range.step

\* C11: no unsigned arithmetic in the Range / FrameSelection queries can trap:
\* in Range::is_included the difference idx - start saturates at 0, in
\* Range::last the remainder never exceeds end (end - remainder >= 0), and in
\* FrameSelection::until the addition last + 1 or max + 1 never exceeds the
\* maximum representable index; so no query panics.
C11_NoArithmeticTrap ==
    pc = "frame"
        => /\ call.op \in {"is_included", "Range::is_included"} =>
                /\ ~panicked
                /\ fsel.kind = "Range" =>
                      saturating_sub(call.arg, fsel.range.start) =
                          IF call.arg < fsel.range.start THEN 0
                          ELSE call.arg - fsel.range.start
           /\ call.op = "Range::last" =>
                /\ ~panicked
                /\ IsSome(fsel.range.end) => LastRemainder(fsel.range) <= Unwrap(fsel.range.end)
           /\ call.op = "until" =>
                /\ ~panicked
                /\ IsSome(UntilAddend(fsel, debug_assertions)) =>
                      Unwrap(UntilAddend(fsel, debug_assertions)) + 1 <= MaxIdx

====
